---- MODULE Spec2Model ----
(***************************************************************************)
(* A model of app_v2.py: the schema complexity analyzer                    *)
(* (analyze_schema_complexity, strategy_selector), the document text       *)
(* extractor (extract_text) and the script-level OCR engine.               *)
(*                                                                         *)
(* JSON values are records [t, items]: t is "num", "str", "list" or        *)
(* "dict"; items is the sequence of entries [k, v] of a list (k = "") or   *)
(* of a dict (k the key), and is empty for a scalar.                       *)
(* Texts and byte strings are sequences of tokens.                         *)
(* Scores are integers counted in hundredths (12.0 is 1200).               *)
(***************************************************************************)
EXTENDS Integers, Sequences, FiniteSets, TLC

VARIABLES schema, metrics, strategy, cache, calls, score, file, outcome,
          pc, pagesLeft, runs, constructions

vars == <<schema, metrics, strategy, cache, calls, score, file, outcome,
          pc, pagesLeft, runs, constructions>>

analyzerVars == <<schema, metrics, strategy, cache, calls, score>>
extractVars == <<file, outcome>>
ocrVars == <<pc, pagesLeft, runs, constructions>>

(***************************************************************************)
(* Bounds of the model.                                                    *)
(***************************************************************************)
MaxDepth == 2
MaxWidth == 2
MaxCacheDepth == 1
MaxCalls == 2
MaxScore == 20100
MaxPages == 2
MaxParagraphs == 2
MaxParts == 2
NumSessions == 2
MaxRuns == 4

(***************************************************************************)
(* JSON values.                                                            *)
(***************************************************************************)
Num == [t |-> "num", items |-> <<>>]
Str == [t |-> "str", items |-> <<>>]
List(vs) == [t |-> "list", items |-> [i \in 1..Len(vs) |-> [k |-> "", v |-> vs[i]]]]
Dict(ks, vs) == [t |-> "dict", items |-> [i \in 1..Len(ks) |-> [k |-> ks[i], v |-> vs[i]]]]

Keys == <<"enum", "properties", "type">>

Entry(key, val) == [k |-> key, v |-> val]

\* The entry sequences of the lists of at most n elements of S.
RECURSIVE ListItems(_, _)
ListItems(S, n) ==
    IF n = 0 THEN {<<>>}
    ELSE LET shorter == ListItems(S, n - 1)
         IN  shorter \cup {Append(its, Entry("", x)) : its \in shorter, x \in S}

\* The entry sequences of the dicts of at most n keys, the keys among
\* Keys[lo], Keys[lo + 1], ..., each key set listed once, in the order of Keys.
RECURSIVE DictItems(_, _, _)
DictItems(S, n, lo) ==
    IF n = 0 \/ lo > Len(Keys) THEN {<<>>}
    ELSE {<<>>} \cup UNION {{<<Entry(Keys[i], x)>> \o rest :
                                 x \in S, rest \in DictItems(S, n - 1, i + 1)}
                             : i \in lo..Len(Keys)}

\* The JSON values of nesting depth at most d whose containers hold at most
\* w entries.
RECURSIVE JSONValues(_, _)
JSONValues(d, w) ==
    IF d = 0
    THEN {Num, Str, List(<<>>), Dict(<<>>, <<>>)}
    ELSE LET sub == JSONValues(d - 1, w)
         IN  sub
             \cup {[t |-> "list", items |-> its] : its \in ListItems(sub, w)}
             \cup {[t |-> "dict", items |-> its] : its \in DictItems(sub, w, 1)}

\* The two schemas the documentation works through.
TwoProps ==
    Dict(<<"properties">>,
         <<Dict(<<"a", "b">>, <<Dict(<<"type">>, <<Str>>), Dict(<<"type">>, <<Str>>)>>)>>)
ThreeEnum == Dict(<<"enum">>, <<List(<<Str, Str, Str>>)>>)
Examples == {TwoProps, ThreeEnum}

\* The schemas analyzed: one analysis each, and the repeated analyses.
Schemas(d, w) == JSONValues(d, w) \cup Examples
CacheSchemas == JSONValues(MaxCacheDepth, 1) \cup Examples

(***************************************************************************)
(* analyze_schema_complexity.traverse: the result is                       *)
(* [raised, fields, level, enums]; raised stands for the TypeError or      *)
(* AttributeError that len(v) / v.values() raise when the value under      *)
(* "properties" is no dict, which aborts the whole traversal.              *)
(***************************************************************************)
Max(a, b) == IF a >= b THEN a ELSE b

Acc(f, l, e) == [raised |-> FALSE, fields |-> f, level |-> l, enums |-> e]
Raised == [raised |-> TRUE, fields |-> 0, level |-> 0, enums |-> 0]

\* fields += f; enums += e; max_level = max(max_level, l)
Accumulate(acc, r) ==
    IF r.raised THEN Raised
    ELSE Acc(acc.fields + r.fields, Max(acc.level, r.level), acc.enums + r.enums)

RECURSIVE traverse(_, _), ItemsLoop(_, _, _, _), DictLoop(_, _, _, _)

\* for sub in v.values(): / for item in obj: every entry visited at level + 1
ItemsLoop(items, i, level, acc) ==
    IF acc.raised \/ i > Len(items) THEN acc
    ELSE ItemsLoop(items, i + 1, level,
                   Accumulate(acc, traverse(items[i].v, level + 1)))

\* elif k == "properties": fields += len(v), then v.values(): len raises on a
\* number, .values() on a list or a string.
PropertiesBranch(v, level, acc) ==
    IF v.t # "dict" THEN Raised
    ELSE ItemsLoop(v.items, 1, level,
                   Acc(acc.fields + Len(v.items), acc.level, acc.enums))

\* for k, v in obj.items():
DictLoop(items, i, level, acc) ==
    IF acc.raised \/ i > Len(items) THEN acc
    ELSE LET k == items[i].k
             v == items[i].v
             next ==
                 IF k = "enum" /\ v.t = "list"
                 THEN Acc(acc.fields, acc.level, acc.enums + Len(v.items))
                 ELSE IF k = "properties"
                 THEN PropertiesBranch(v, level, acc)
                 ELSE IF v.t \in {"dict", "list"}
                 THEN Accumulate(acc, traverse(v, level + 1))
                 ELSE acc
         IN  DictLoop(items, i + 1, level, next)

traverse(obj, level) ==
    IF obj.t = "dict" THEN DictLoop(obj.items, 1, level, Acc(0, level, 0))
    ELSE IF obj.t = "list" THEN ItemsLoop(obj.items, 1, level, Acc(0, level, 0))
    ELSE Acc(0, level, 0)

\* score = fields + 5 * depth + 0.01 * enums, here in thousandths
RawScore(fields, depth, enums) == 1000 * fields + 5000 * depth + 10 * enums

\* round(x, 2): x in thousandths, the result in hundredths, halves to even
Round2(x) ==
    LET q == x \div 10
        r == x % 10
    IN  IF r < 5 THEN q
        ELSE IF r > 5 THEN q + 1
        ELSE IF q % 2 = 0 THEN q ELSE q + 1

NoMetrics == [kind |-> "none", fields |-> 0, depth |-> 0, enums |-> 0, score |-> 0]
RaisedMetrics == [kind |-> "raised", fields |-> 0, depth |-> 0, enums |-> 0, score |-> 0]

\* The undecorated function body.
analyze_uncached(s) ==
    LET r == traverse(s, 1)
    IN  IF r.raised THEN RaisedMetrics
        ELSE [kind |-> "ok", fields |-> r.fields, depth |-> r.level, enums |-> r.enums,
              score |-> Round2(RawScore(r.fields, r.level, r.enums))]

(***************************************************************************)
(* strategy_selector, on a score in hundredths.                            *)
(***************************************************************************)
Direct == "Direct prompt, no schema splitting"
Chunked == "Chunked schema or input, 2-3 LLM calls"   \* an en dash in the source
Stitching == "Chunk schema & input, iterative stitching"

SelectorInclusive(s) ==
    IF s <= 10000 THEN Direct
    ELSE IF s <= 20000 THEN Chunked
    ELSE Stitching

strategy_selector(s) ==
    IF s < 10000 THEN Direct
    ELSE IF s < 20000 THEN Chunked
    ELSE Stitching

(***************************************************************************)
(* @st.cache_data: the memo table of analyze_schema_complexity. An entry   *)
(* is [key, arg, value]: key is the hash of the argument's content, value  *)
(* the returned tuple; arg records the argument that created the entry     *)
(* (the table itself keeps only key and value). A call that raises stores  *)
(* nothing.                                                                *)
(***************************************************************************)
CacheKeyTopLevel(s) == [t |-> s.t, items |-> [i \in 1..Len(s.items) |-> s.items[i].k]]

CacheKey(s) == s

Lookup(c, s) == {e \in c : e.key = CacheKey(s)}

analyze_schema_complexity(c, s) ==
    IF Lookup(c, s) # {}
    THEN [value |-> (CHOOSE e \in Lookup(c, s) : TRUE).value, cache |-> c]
    ELSE LET m == analyze_uncached(s)
         IN  [value |-> m,
              cache |-> IF m.kind = "raised" THEN c
                        ELSE c \cup {[key |-> CacheKey(s), arg |-> s, value |-> m]}]

(***************************************************************************)
(* Texts. A text or a byte string is a sequence of tokens: " " and "\n" are *)
(* whitespace, "0xFF" is a byte that is no valid UTF-8, "<b>" and "</b>"   *)
(* are markup, every other token is a visible character.                   *)
(***************************************************************************)
Whitespace == {" ", "\n"}
Markup == {"<b>", "</b>"}
Undecodable == {"0xFF"}

\* "\n".join(texts)
RECURSIVE JoinFrom(_, _)
JoinFrom(texts, i) ==
    IF i > Len(texts) THEN <<>>
    ELSE IF i = Len(texts) THEN texts[i]
    ELSE texts[i] \o <<"\n">> \o JoinFrom(texts, i + 1)
JoinLines(texts) == JoinFrom(texts, 1)

\* bytes.decode(errors="ignore"): the undecodable bytes are dropped
IsDecodable(b) == b \notin Undecodable
DecodeIgnore(bytes) == SelectSeq(bytes, IsDecodable)

\* BeautifulSoup(..., "html.parser").get_text(): the markup is dropped
IsVisible(b) == b \notin Markup
SoupText(bytes) == SelectSeq(bytes, IsVisible)

IsPrefix(p, t) == Len(p) <= Len(t) /\ SubSeq(t, 1, Len(p)) = p

ErrPrefix == <<"Error reading PDF:", " ">>

(***************************************************************************)
(* Documents. A file is [ext, fault, pages, paragraphs, multipart, parts,  *)
(* content]: ext is the extension of its name as written; fault says that  *)
(* opening or reading it raises (fitz.open, docx.Document, file.read);     *)
(* the other fields are what the reader of its format finds in it.         *)
(* A PDF page is [fault, native, ocr]: fault names the step that raises on *)
(* the page ("text": get_text, "render": get_pixmap or the PNG             *)
(* conversion, "ocr": ocr.readtext, "none"), native is its text layer, ocr *)
(* the (box, text, confidence) triples the recognizer finds on it.         *)
(***************************************************************************)
Exts == {".pdf", ".PDF", ".docx", ".eml", ".html", ".htm", ".txt"}

\* file.name.lower()
Lower(e) == IF e = ".PDF" THEN ".pdf" ELSE e

\* mimetypes.guess_type(file.name)[0]
GuessMime(e) ==
    IF e \in {".html", ".htm"} THEN "text/html"
    ELSE IF Lower(e) = ".pdf" THEN "application/pdf"
    ELSE IF e = ".eml" THEN "message/rfc822"
    ELSE IF e = ".txt" THEN "text/plain"
    ELSE "application/vnd.openxmlformats-officedocument.wordprocessingml.document"

Triple(txt, conf) == [box |-> 0, text |-> txt, conf |-> conf]

NativeTexts == {<<>>, <<" ">>, <<"a">>}
OcrResults == {<<>>, <<Triple(<<"x">>, 9)>>, <<Triple(<<"x">>, 9), Triple(<<"y", "z">>, 1)>>}

Page(f, n, o) == [fault |-> f, native |-> n, ocr |-> o]
Pages ==
    {Page("none", n, o) : n \in NativeTexts, o \in OcrResults}
    \cup {Page("text", <<>>, <<>>)}
    \cup {Page(f, n, <<>>) : f \in {"render", "ocr"}, n \in NativeTexts}

Part(c, b) == [ctype |-> c, payload |-> b]
Parts ==
    {Part("text/plain", b) : b \in {<<"p">>, <<"0xFF", "q">>, <<"<b>", "h", "</b>">>}}
    \cup {Part("text/html", b) : b \in {<<"<b>", "h", "</b>">>, <<"p">>}}
    \cup {Part("image/png", <<"0xFF">>), Part("multipart/alternative", <<>>)}

Paragraphs == {<<>>, <<"a">>}
Contents == {<<>>, <<"p", "0xFF">>, <<"<b>", "h", "</b>">>}
HtmlContents == {<<>>, <<"<b>", "h", "</b>">>}

RECURSIVE SeqsOver(_, _)
SeqsOver(S, n) ==
    IF n = 0 THEN {<<>>}
    ELSE LET shorter == SeqsOver(S, n - 1)
         IN  shorter \cup {Append(q, x) : q \in shorter, x \in S}

File(e, f, pg, para, multi, pt, c) ==
    [ext |-> e, fault |-> f, pages |-> pg, paragraphs |-> para,
     multipart |-> multi, parts |-> pt, content |-> c]
Unreadable(e) == File(e, TRUE, <<>>, <<>>, FALSE, <<>>, <<>>)

Files(maxPages, maxParagraphs, maxParts) ==
    {Unreadable(e) : e \in Exts}
    \cup {File(e, FALSE, pg, <<>>, FALSE, <<>>, <<>>) :
              e \in {".pdf", ".PDF"}, pg \in SeqsOver(Pages, maxPages)}
    \cup {File(".docx", FALSE, <<>>, para, FALSE, <<>>, <<>>) :
              para \in SeqsOver(Paragraphs, maxParagraphs)}
    \cup {File(".eml", FALSE, <<>>, <<>>, TRUE, pt, <<>>) : pt \in SeqsOver(Parts, maxParts)}
    \cup {File(".eml", FALSE, <<>>, <<>>, FALSE, <<>>, c) : c \in Contents}
    \cup {File(e, FALSE, <<>>, <<>>, FALSE, <<>>, c) : e \in {".html", ".htm"}, c \in HtmlContents}
    \cup {File(".txt", FALSE, <<>>, <<>>, FALSE, <<>>, c) : c \in Contents}

NoFile == File("", FALSE, <<>>, <<>>, FALSE, <<>>, <<>>)

(***************************************************************************)
(* extract_text. The outcome of a call is [kind, isNone, value, ocrLog]:   *)
(* kind is "return" or "raise", isNone says that the call returned None,   *)
(* value is the returned string, ocrLog lists the pages on which           *)
(* ocr.readtext was invoked, in the order of the invocations.              *)
(***************************************************************************)
NoOutcome == [kind |-> "none", isNone |-> FALSE, value |-> <<>>, ocrLog |-> <<>>]
Return(t, log) == [kind |-> "return", isNone |-> FALSE, value |-> t, ocrLog |-> log]
ReturnNone == [kind |-> "return", isNone |-> TRUE, value |-> <<>>, ocrLog |-> <<>>]
Raise(log) == [kind |-> "raise", isNone |-> FALSE, value |-> <<>>, ocrLog |-> log]

\* page.get_text() for page in doc: the text layers, or the first page whose
\* text extraction raises
TextFaults(pages) == {i \in 1..Len(pages) : pages[i].fault = "text"}
Natives(pages) == [i \in 1..Len(pages) |-> pages[i].native]

\* if not text.strip():
NeedsOcrBelowTwo(text) == Len(text) < 2

NeedsOcr(text) == \A i \in 1..Len(text) : text[i] \in Whitespace

\* for _, text, _ in result: ocr_text.append(text)
RecognizedConfident(result) ==
    LET Confident(r) == r.conf >= 5
        kept == SelectSeq(result, Confident)
    IN  [i \in 1..Len(kept) |-> kept[i].text]

Recognized(result) == [i \in 1..Len(result) |-> result[i].text]

\* for page in doc: render the page, recognize it, keep the strings
RECURSIVE OcrLoop(_, _, _, _)
OcrLoop(pages, i, ocr_text, log) ==
    IF i > Len(pages) THEN Return(JoinLines(ocr_text), log)
    ELSE IF pages[i].fault = "render" THEN Raise(log)
    ELSE IF pages[i].fault = "ocr" THEN Raise(Append(log, i))
    ELSE OcrLoop(pages, i + 1, ocr_text \o Recognized(pages[i].ocr), Append(log, i))

\* The body of the try block of the .pdf branch.
PdfBody(f) ==
    IF f.fault \/ TextFaults(f.pages) # {} THEN Raise(<<>>)
    ELSE LET text == JoinLines(Natives(f.pages))
         IN  IF NeedsOcr(text) THEN OcrLoop(f.pages, 1, <<>>, <<>>)
             ELSE Return(text, <<>>)

PdfBranchUncaught(f) == PdfBody(f)

\* try: ... except Exception as e: return f"Error reading PDF: {e}"
PdfBranch(f) ==
    LET r == PdfBody(f)
    IN  IF r.kind = "raise" THEN Return(ErrPrefix \o <<"e">>, r.ocrLog) ELSE r

DocxBranch(f) ==
    IF f.fault THEN Raise(<<>>) ELSE Return(JoinLines(f.paragraphs), <<>>)

\* msg.walk(): the message itself, then its parts in order
Walk(f) == <<Part("multipart/mixed", <<>>)>> \o f.parts

\* The parts a walk can stop at, and the text of one.
IsTextPart(p) == p.ctype \in {"text/plain", "text/html"}

PartText(p) ==
    IF p.ctype = "text/plain" THEN DecodeIgnore(p.payload) ELSE SoupText(p.payload)

RECURSIVE WalkConcat(_, _, _)
WalkConcat(parts, i, text) ==
    IF i > Len(parts) THEN Return(text, <<>>)
    ELSE WalkConcat(parts, i + 1,
                    IF IsTextPart(parts[i]) THEN text \o PartText(parts[i]) ELSE text)
WalkAll(parts, i) == WalkConcat(parts, i, <<>>)

\* for part in msg.walk(): the first text/plain or text/html part returns;
\* a walk that ends without one falls off the end of the function
RECURSIVE WalkLoop(_, _)
WalkLoop(parts, i) ==
    IF i > Len(parts) THEN ReturnNone
    ELSE IF parts[i].ctype = "text/plain" THEN Return(DecodeIgnore(parts[i].payload), <<>>)
    ELSE IF parts[i].ctype = "text/html" THEN Return(SoupText(parts[i].payload), <<>>)
    ELSE WalkLoop(parts, i + 1)

EmlBranch(f) ==
    IF f.fault THEN Raise(<<>>)
    ELSE IF f.multipart THEN WalkLoop(Walk(f), 1)
    ELSE Return(DecodeIgnore(f.content), <<>>)

HtmlBranch(f) == IF f.fault THEN Raise(<<>>) ELSE Return(SoupText(f.content), <<>>)

RawBranch(f) == IF f.fault THEN Raise(<<>>) ELSE Return(DecodeIgnore(f.content), <<>>)

extract_text(f) ==
    LET name == Lower(f.ext)
    IN  IF name = ".pdf" THEN PdfBranch(f)
        ELSE IF name = ".docx" THEN DocxBranch(f)
        ELSE IF name = ".eml" THEN EmlBranch(f)
        ELSE IF name = ".html" \/ GuessMime(f.ext) = "text/html" THEN HtmlBranch(f)
        ELSE RawBranch(f)

(***************************************************************************)
(* The state of the other components, left alone by a component's steps.   *)
(***************************************************************************)
AnalyzerIdle ==
    /\ schema = Num /\ metrics = NoMetrics /\ strategy = "none"
    /\ cache = {} /\ calls = 0 /\ score = 0
ExtractIdle == file = NoFile /\ outcome = NoOutcome
OcrIdle ==
    /\ pc = <<>> /\ pagesLeft = <<>> /\ runs = 0 /\ constructions = 0

(***************************************************************************)
(* The "Generate JSON" run on a schema (lines 156-160): the schema is      *)
(* analyzed through the memo table and the score selects the strategy; an  *)
(* exception of the analysis ends the run before the selection.            *)
(***************************************************************************)
GenerateJSON(s) ==
    LET r == analyze_schema_complexity(cache, s)
    IN  /\ schema' = s
        /\ metrics' = r.value
        /\ cache' = r.cache
        /\ strategy' = IF r.value.kind = "ok" THEN strategy_selector(r.value.score)
                       ELSE "none"
        /\ calls' = calls + 1
        /\ UNCHANGED <<score, extractVars, ocrVars>>

\* One analysis of one schema, from an empty memo table.
InitTraverse ==
    /\ schema \in Schemas(MaxDepth, MaxWidth) /\ metrics = NoMetrics /\ strategy = "none"
    /\ cache = {} /\ calls = 0 /\ score = 0
    /\ ExtractIdle /\ OcrIdle

Analyze == calls = 0 /\ GenerateJSON(schema)

NextTraverse == Analyze

SpecTraverse == InitTraverse /\ [][NextTraverse]_vars

\* Any sequence of at most MaxCalls analyses in one process.
InitCache == AnalyzerIdle /\ ExtractIdle /\ OcrIdle

Rerun == calls < MaxCalls /\ \E s \in CacheSchemas : GenerateJSON(s)

NextCache == Rerun

SpecCache == InitCache /\ [][NextCache]_vars

\* strategy_selector on every score up to MaxScore hundredths.
InitSelect ==
    /\ score \in 0..MaxScore
    /\ schema = Num /\ metrics = NoMetrics /\ strategy = "none"
    /\ cache = {} /\ calls = 0
    /\ ExtractIdle /\ OcrIdle

Select ==
    /\ strategy = "none"
    /\ strategy' = strategy_selector(score)
    /\ UNCHANGED <<schema, metrics, cache, calls, score, extractVars, ocrVars>>

NextSelect == Select

SpecSelect == InitSelect /\ [][NextSelect]_vars

\* One call of extract_text on one uploaded file (line 157).
InitExtract ==
    /\ file \in Files(MaxPages, MaxParagraphs, MaxParts)
    /\ outcome = NoOutcome
    /\ AnalyzerIdle /\ OcrIdle

ExtractText ==
    /\ outcome.kind = "none"
    /\ outcome' = extract_text(file)
    /\ UNCHANGED <<file, analyzerVars, ocrVars>>

NextExtract == ExtractText

SpecExtract == InitExtract /\ [][NextExtract]_vars

(***************************************************************************)
(* The OCR engine. The file is a Streamlit script: the server runs it from *)
(* the top on every interaction, each browser session's run on a thread of *)
(* its own. Line 15 builds the engine at the top of every run, and         *)
(* extract_text calls ocr.readtext (line 95) with no lock held. A run is   *)
(* at "idle" (no run in progress), "loaded" (line 15 done), "extract"      *)
(* (inside extract_text, between recognitions) or "ocr" (inside            *)
(* ocr.readtext); pagesLeft counts the pages it has yet to recognize.      *)
(***************************************************************************)
Sessions == 1..NumSessions

InitOcr ==
    /\ pc = [s \in Sessions |-> "idle"]
    /\ pagesLeft = [s \in Sessions |-> 0]
    /\ runs = 0 /\ constructions = 0
    /\ AnalyzerIdle /\ ExtractIdle

\* A run starts: ocr = easyocr.Reader(['en'], gpu=False)
ScriptStart(s) ==
    /\ pc[s] = "idle" /\ runs < MaxRuns
    /\ pc' = [pc EXCEPT ![s] = "loaded"]
    /\ runs' = runs + 1
    /\ constructions' = constructions + 1
    /\ UNCHANGED <<pagesLeft, analyzerVars, extractVars>>

\* The run ends at line 196: the files or the button press are missing.
ScriptWaits(s) ==
    /\ pc[s] = "loaded"
    /\ pc' = [pc EXCEPT ![s] = "idle"]
    /\ UNCHANGED <<pagesLeft, runs, constructions, analyzerVars, extractVars>>

\* Line 157 calls extract_text, on a file with n pages to recognize.
ExtractBegin(s) ==
    /\ pc[s] = "loaded"
    /\ \E n \in 0..MaxPages : pagesLeft' = [pagesLeft EXCEPT ![s] = n]
    /\ pc' = [pc EXCEPT ![s] = "extract"]
    /\ UNCHANGED <<runs, constructions, analyzerVars, extractVars>>

\* result = ocr.readtext(...) is entered,
OcrInvoke(s) ==
    /\ pc[s] = "extract" /\ pagesLeft[s] > 0
    /\ pc' = [pc EXCEPT ![s] = "ocr"]
    /\ UNCHANGED <<pagesLeft, runs, constructions, analyzerVars, extractVars>>

\* and returns.
OcrReturn(s) ==
    /\ pc[s] = "ocr"
    /\ pc' = [pc EXCEPT ![s] = "extract"]
    /\ pagesLeft' = [pagesLeft EXCEPT ![s] = pagesLeft[s] - 1]
    /\ UNCHANGED <<runs, constructions, analyzerVars, extractVars>>

\* extract_text returns and the run goes on to its end.
ExtractEnd(s) ==
    /\ pc[s] = "extract" /\ pagesLeft[s] = 0
    /\ pc' = [pc EXCEPT ![s] = "idle"]
    /\ UNCHANGED <<pagesLeft, runs, constructions, analyzerVars, extractVars>>

NextOcr ==
    \E s \in Sessions :
        \/ ScriptStart(s)
        \/ ScriptWaits(s)
        \/ ExtractBegin(s)
        \/ OcrInvoke(s)
        \/ OcrReturn(s)
        \/ ExtractEnd(s)

SpecOcr == InitOcr /\ [][NextOcr]_vars

(***************************************************************************)
(* The documented traversal rules, stated apart from the code: the values  *)
(* a value's visit descends into (each at the next level), and what the    *)
(* value itself adds to the field and enum counts.                         *)
(***************************************************************************)
\* The values visited below entry e of a dict.
DocBelowEntry(e) ==
    IF e.k = "enum" /\ e.v.t = "list" THEN <<>>
    ELSE IF e.k = "properties"
    THEN IF e.v.t = "dict" THEN [i \in 1..Len(e.v.items) |-> e.v.items[i].v] ELSE <<>>
    ELSE IF e.v.t \in {"dict", "list"} THEN <<e.v>>
    ELSE <<>>

RECURSIVE DocBelowDict(_, _)
DocBelowDict(items, i) ==
    IF i > Len(items) THEN <<>>
    ELSE DocBelowEntry(items[i]) \o DocBelowDict(items, i + 1)

DocBelow(obj) ==
    IF obj.t = "dict" THEN DocBelowDict(obj.items, 1)
    ELSE IF obj.t = "list" THEN [i \in 1..Len(obj.items) |-> obj.items[i].v]
    ELSE <<>>

RECURSIVE DocOwn(_, _, _)
DocOwn(items, i, key) ==
    IF i > Len(items) THEN 0
    ELSE (IF items[i].k = key /\ items[i].v.t = (IF key = "enum" THEN "list" ELSE "dict")
          THEN Len(items[i].v.items) ELSE 0)
         + DocOwn(items, i + 1, key)

RECURSIVE DocCount(_, _), DocCountAll(_, _, _), DocDepth(_, _), DocDepthAll(_, _, _)
DocCount(obj, key) ==
    (IF obj.t = "dict" THEN DocOwn(obj.items, 1, key) ELSE 0)
    + DocCountAll(DocBelow(obj), 1, key)
DocCountAll(vs, i, key) ==
    IF i > Len(vs) THEN 0 ELSE DocCount(vs[i], key) + DocCountAll(vs, i + 1, key)
DocDepth(obj, level) == Max(level, DocDepthAll(DocBelow(obj), 1, level + 1))
DocDepthAll(vs, i, level) ==
    IF i > Len(vs) THEN 0
    ELSE Max(DocDepth(vs[i], level), DocDepthAll(vs, i + 1, level))

DocMetrics(s) ==
    LET f == DocCount(s, "properties")
        d == DocDepth(s, 1)
        e == DocCount(s, "enum")
    IN  [kind |-> "ok", fields |-> f, depth |-> d, enums |-> e,
         score |-> 100 * f + 500 * d + e]

(***************************************************************************)
(* The claims about the analyzer.                                          *)
(***************************************************************************)
\* C2: analyze_schema_complexity never fails: the analysis of every JSON
\* value, a "properties" key holding a list, a string or a number included,
\* returns metrics instead of raising.
C2_NeverFails == calls > 0 => metrics.kind = "ok"

\* C3: for every JSON value the analysis returns the field count, the depth,
\* the enum count and the score the documented traversal rules define
\* (TwoProps: 2, 2, 0, 12.0; ThreeEnum: 0, 1, 3, 5.03).
C3_MetricsAsDocumented == calls > 0 => metrics = DocMetrics(schema)

\* Where the analysis returns at all, it returns the documented metrics.
MetricsAsDocumentedUnlessRaised ==
    (calls > 0 /\ metrics.kind = "ok") => metrics = DocMetrics(schema)

DocumentedExamples ==
    /\ DocMetrics(TwoProps) = [kind |-> "ok", fields |-> 2, depth |-> 2, enums |-> 0, score |-> 1200]
    /\ DocMetrics(ThreeEnum) = [kind |-> "ok", fields |-> 0, depth |-> 1, enums |-> 3, score |-> 503]
    /\ (calls > 0 /\ schema \in Examples) => metrics = DocMetrics(schema)

\* C4: strategy_selector returns exactly one label for every score, by
\* half-open intervals: Direct below 100, Chunked from 100 to below 200,
\* Stitching from 200 on (99.99 Direct, 100.00 and 199.99 Chunked, 200.00
\* Stitching).
C4_SelectorIntervals ==
    strategy # "none" =>
        /\ strategy \in {Direct, Chunked, Stitching}
        /\ (strategy = Direct) = (score < 10000)
        /\ (strategy = Chunked) = (10000 <= score /\ score < 20000)
        /\ (strategy = Stitching) = (score >= 20000)

C4_Witness == score = 10000 /\ strategy = Chunked

Called == outcome.kind # "none"
IsPdf(f) == Lower(f.ext) = ".pdf"

\* The pages of a PDF that opens and whose text layers can all be read.
NativeReadable(f) == IsPdf(f) /\ ~f.fault /\ \A i \in 1..Len(f.pages) : f.pages[i].fault # "text"
NativeText(f) == JoinLines([i \in 1..Len(f.pages) |-> f.pages[i].native])
HasVisible(text) == \E i \in 1..Len(text) : text[i] \notin Whitespace

\* The strings recognized on the pages, by page and then by result order.
RECURSIVE RecognizedFrom(_, _)
RecognizedFrom(pages, i) ==
    IF i > Len(pages) THEN <<>>
    ELSE [j \in 1..Len(pages[i].ocr) |-> pages[i].ocr[j].text] \o RecognizedFrom(pages, i + 1)

\* C1: a call of extract_text that returns, returns a string and never None,
\* whatever the document: empty documents and a multipart .eml with no
\* text/plain and no text/html part included.
C1_NeverNone == (Called /\ outcome.kind = "return") => ~outcome.isNone

\* A call that returns None is one on a multipart .eml without a text part.
NoneOnlyForTextlessEml ==
    (Called /\ outcome.isNone) =>
        /\ file.ext = ".eml" /\ file.multipart
        /\ \A i \in 1..Len(file.parts) : ~IsTextPart(file.parts[i])

\* C5: on a .pdf whose newline-joined native text holds a non-whitespace
\* character, the OCR engine is never invoked and the call returns exactly
\* that native text.
C5_NativeTextSkipsOcr ==
    (Called /\ NativeReadable(file) /\ HasVisible(NativeText(file))) =>
        /\ outcome.ocrLog = <<>>
        /\ outcome.kind = "return" /\ ~outcome.isNone
        /\ outcome.value = NativeText(file)

\* Two pages, one with a text layer and one without, the second one a page
\* whose rendering would raise: the native text is returned.
C5_Witness ==
    /\ Called /\ NativeReadable(file) /\ HasVisible(NativeText(file))
    /\ Len(file.pages) = 2 /\ file.pages[1].native = <<"a">>
    /\ file.pages[2].fault = "render"
    /\ outcome.value = <<"a", "\n">>

\* C6 as stated: on a .pdf whose native text is empty or whitespace-only,
\* the OCR engine is invoked exactly once per page, in page order, and the
\* call returns the newline-joined recognized strings, by page and then by
\* result order, and nothing of the native text.
C6_OcrOncePerPage ==
    (Called /\ NativeReadable(file) /\ ~HasVisible(NativeText(file))) =>
        /\ outcome.ocrLog = [i \in 1..Len(file.pages) |-> i]
        /\ outcome.kind = "return" /\ ~outcome.isNone
        /\ outcome.value = JoinLines(RecognizedFrom(file.pages, 1))

\* The pages on which rendering or recognition raises.
OcrFaults(f) == {i \in 1..Len(f.pages) : f.pages[i].fault \in {"render", "ocr"}}
FirstOcrFault(f) == CHOOSE i \in OcrFaults(f) : \A j \in OcrFaults(f) : i <= j

\* C6 as amended: on such a .pdf the OCR engine is invoked at most once per
\* page, in page order. If no page raises while it is rendered or
\* recognized, every page is recognized and the call returns the
\* newline-joined recognized strings; otherwise the invocations stop at the
\* first page that raises (that page included exactly when it is the
\* recognition that raises) and the call returns the error string.
C6_OcrOncePerPageUnlessRaised ==
    (Called /\ NativeReadable(file) /\ ~HasVisible(NativeText(file))) =>
        /\ outcome.kind = "return" /\ ~outcome.isNone
        /\ \E n \in 0..Len(file.pages) : outcome.ocrLog = [i \in 1..n |-> i]
        /\ OcrFaults(file) = {} =>
              /\ outcome.ocrLog = [i \in 1..Len(file.pages) |-> i]
              /\ outcome.value = JoinLines(RecognizedFrom(file.pages, 1))
        /\ OcrFaults(file) # {} =>
              /\ Len(outcome.ocrLog) =
                     IF file.pages[FirstOcrFault(file)].fault = "ocr"
                     THEN FirstOcrFault(file) ELSE FirstOcrFault(file) - 1
              /\ IsPrefix(ErrPrefix, outcome.value)

\* Two scanned pages behind whitespace-only text layers: both are
\* recognized, and the strings of both make up the result.
C6_Witness ==
    /\ Called /\ NativeReadable(file) /\ Len(file.pages) = 2
    /\ file.pages[1].native = <<" ">> /\ file.pages[2].native = <<>>
    /\ Len(file.pages[1].ocr) = 2 /\ Len(file.pages[2].ocr) = 1
    /\ outcome.ocrLog = <<1, 2>>
    /\ outcome.value = <<"x", "\n", "y", "z", "\n", "x">>

\* A step of the .pdf path raises on this file: the open, the text
\* extraction of a page or, when the native text sends the call to the OCR
\* fallback, the rendering or the recognition of a page.
PdfStepRaises(f) ==
    \/ f.fault
    \/ \E i \in 1..Len(f.pages) : f.pages[i].fault = "text"
    \/ NativeReadable(f) /\ ~HasVisible(NativeText(f)) /\ OcrFaults(f) # {}

\* C7: a call on a .pdf never raises, and when a step of its path raises
\* the call returns a string that starts with "Error reading PDF:"; a fault
\* on any other path propagates: the call raises and returns nothing.
C7_ContainmentOnlyForPdf ==
    Called =>
        /\ IsPdf(file) => outcome.kind = "return"
        /\ (IsPdf(file) /\ PdfStepRaises(file)) => IsPrefix(ErrPrefix, outcome.value)
        /\ (~IsPdf(file) /\ file.fault) => outcome.kind = "raise"

\* The recognition of the second page raises, after the first page was
\* recognized: the call returns the error string.
C7_Witness ==
    /\ Called /\ IsPdf(file) /\ Len(file.pages) = 2
    /\ file.pages[1].fault = "none" /\ file.pages[2].fault = "ocr"
    /\ outcome.ocrLog = <<1, 2>>
    /\ outcome.kind = "return" /\ IsPrefix(ErrPrefix, outcome.value)

TextParts(f) == {i \in 1..Len(f.parts) : IsTextPart(f.parts[i])}
FirstTextPart(f) == CHOOSE i \in TextParts(f) : \A j \in TextParts(f) : i <= j

\* C8: on a multipart .eml with a text/plain or text/html part, the call
\* returns the content of the first such part and of no other: decoded
\* leniently when it is text/plain, with the markup stripped when it is
\* text/html.
C8_FirstTextPartOnly ==
    (Called /\ file.ext = ".eml" /\ ~file.fault /\ file.multipart /\ TextParts(file) # {}) =>
        /\ outcome.kind = "return" /\ ~outcome.isNone
        /\ outcome.value = PartText(file.parts[FirstTextPart(file)])

\* A plain-text part followed by an HTML part: the plain text is returned.
C8_Witness ==
    /\ Called /\ file.ext = ".eml" /\ file.multipart /\ Len(file.parts) = 2
    /\ file.parts[1] = Part("text/plain", <<"0xFF", "q">>)
    /\ file.parts[2] = Part("text/html", <<"<b>", "h", "</b>">>)
    /\ outcome.value = <<"q">>

\* An HTML part alone, behind an attachment: its visible text is returned.
HtmlPartOnly ==
    (/\ Called /\ file.ext = ".eml" /\ file.multipart
     /\ file.parts = <<Part("image/png", <<"0xFF">>), Part("text/html", <<"<b>", "h", "</b>">>)>>)
    => outcome.value = <<"h">>

(***************************************************************************)
(* The claim about the OCR engine.                                         *)
(***************************************************************************)
EngineBuiltOnce == constructions <= 1
OcrSerialized == Cardinality({s \in Sessions : pc[s] = "ocr"}) <= 1

\* C9: across any sequence of script runs and any interleaving of
\* concurrent extraction requests, the OCR engine is constructed at most
\* once and at most one OCR invocation is in progress at any time.
C9_OneEngineSerialized == EngineBuiltOnce /\ OcrSerialized

====
